---- MODULE Spec2Model ----
(***************************************************************************)
(* A model of the squawk-react store created by createStore               *)
(* (src/src/Squawk.ts, lines 136-530): the global state wrapper, the      *)
(* per-field subscriber registry, the reference-counted pending tracker   *)
(* and the action wrapper.                                                *)
(*                                                                        *)
(* Every public operation of the store is synchronous; the only place a   *)
(* caller is suspended is the await inside an action.  Therefore each     *)
(* operation is one atomic step, and an action invocation is two steps:   *)
(* the call up to its await (InvokeAction) and the continuation after     *)
(* the awaited value has settled (ResumeAction).                          *)
(***************************************************************************)
EXTENDS Integers, Sequences, FiniteSets, TLC

(***************************************************************************)
(* Bounds of the model.                                                    *)
(***************************************************************************)
\* Field values are 0..MaxVal.
MaxVal == 1
\* Number of subscriber closures that can ever be created.
MaxSubs == 2
\* Number of action invocations that can be in flight at the same time.
MaxActs == 2
\* Cap on a field's pending count.
MaxPending == 2
\* Longest list of contexts handed to pending().
MaxListLen == 2
\* Number of action invocations in flight next to direct updates (SpecCommit).
MaxWriters == 1
\* Number of callbacks of the store with and without the dev tools (SpecEither).
MaxWatchers == 2
\* Number of components that call a hook (SpecHooks).
MaxConsumers == 1
\* Number of objects handed out by get() whose contents are followed.
MaxTaken == 1

\* The schema of the store: the keys of initialState.
Fields == {"a", "b"}
Values == 0..MaxVal
Subs == 1..MaxSubs
Acts == 1..MaxActs

States == [Fields -> Values]

VARIABLES
    globalState,    \* createStoreWrapper(initialState): the current state object
    subscribers,    \* Map<StoreProp, Set<Callback>>; a Set iterates in insertion order
    subs,           \* the subscriber closures created so far and what they do
    pendingCount,   \* createStoreWrapper({} as PendingCount)
    pendingState,   \* createStoreWrapper({} as PendingState)
    acts,           \* the invocations of operations created by action()
    held,           \* history: increments of direct pending calls not yet taken back
    initialState,   \* history: the state the store was created with
    lastPatch,      \* history: per field, the value of the last patch that held it
    lastCall,       \* history: what the most recent call did
    recording,      \* which of the histories lastPatch and snapshot are kept
    reduxDevTools,  \* whether the Redux dev tools are connected (line 256)
    pendingSubscribers, \* Map<StoreProp, Set<Callback<PendingState>>>
    taken,          \* history: the latest objects the wrappers' get() handed out
    connectStore    \* the store of Squawk.tsx: state, the two callback maps, the
                    \* flag renderingFunctionalComponent and the stack of contexts

vars == <<globalState, subscribers, subs, pendingCount, pendingState, held, acts,
          initialState, lastPatch, lastCall, recording, reduxDevTools,
          pendingSubscribers, taken, connectStore>>

valueVars == <<globalState, lastPatch>>
subVars == <<subscribers, subs>>
pendingVars == <<pendingCount, pendingState>>

(***************************************************************************)
(* Helpers on sequences.                                                   *)
(***************************************************************************)
Range(s) == {s[i] : i \in 1..Len(s)}

Occurrences(x, s) == Cardinality({i \in 1..Len(s) : s[i] = x})

Remove(s, x) == SelectSeq(s, LAMBDA y : y # x)

SeqsUpTo(S, n) == UNION {[1..k -> S] : k \in 0..n}

\* Lists of contexts: the first argument of pending().
ContextLists == SeqsUpTo(Fields, MaxListLen)

\* Placeholder for the snapshot of an invocation that holds none.
NoState == [f \in Fields |-> 0]

(***************************************************************************)
(* Patches.  A patch object is a list of <<key, value>> pairs with         *)
(* distinct keys, in the order Object.keys enumerates them.                *)
(***************************************************************************)
Patches ==
    {p \in SeqsUpTo(Fields \X Values, Cardinality(Fields)) :
        \A i, j \in 1..Len(p) : i # j => p[i][1] # p[j][1]}

\* Object.keys(patch)
Keys(p) == [i \in 1..Len(p) |-> p[i][1]]

HasKey(p, f) == \E i \in 1..Len(p) : p[i][1] = f

PatchValue(p, f) == p[CHOOSE i \in 1..Len(p) : p[i][1] = f][2]

(***************************************************************************)
(* createStoreWrapper (lines 150-174).                                     *)
(***************************************************************************)
\* A merge with the spreads in the wrong order: { ...updatedValues, ...globalState }
StoreUpdateOldWins(state, updatedValues) == [f \in Fields |-> state[f]]

\* A merge that writes the first key of the patch and leaves the others for later
StoreUpdateFirstKey(state, updatedValues) ==
    [f \in DOMAIN state \cup Range(Keys(updatedValues)) |->
        IF HasKey(updatedValues, f) /\ (f = updatedValues[1][1] \/ f \notin DOMAIN state)
        THEN PatchValue(updatedValues, f) ELSE state[f]]

\* update(updatedValues): globalState = { ...globalState, ...updatedValues }
StoreUpdate(state, updatedValues) ==
    [f \in DOMAIN state \cup Range(Keys(updatedValues)) |->
        IF HasKey(updatedValues, f) THEN PatchValue(updatedValues, f) ELSE state[f]]

\* get(): a copy of the current state, with the keys the state has
StoreGet(state) == [f \in DOMAIN state |-> state[f]]

\* set(state): globalState = { ...state }, the keys and values of the object
\* given and nothing of the old state
StoreSet(state) == [f \in Range(Keys(state)) |-> PatchValue(state, f)]

\* keys(): Object.keys(globalState), in the order of the schema
StoreKeys == <<"a", "b">>

(***************************************************************************)
(* The objects of the wrappers (lines 150-174).  get() spreads the object  *)
(* the wrapper holds into a new one; update and set bind the wrapper to a  *)
(* new object; setValue writes into the object the wrapper holds.  An      *)
(* object that get() handed out is followed as a record: of, the wrapper;  *)
(* alias, whether it is the very object the wrapper holds now; state, its  *)
(* contents now; produced, its contents when it was handed out.            *)
(***************************************************************************)
\* A get() that returns the object the wrapper holds
WrapperGetLive(of, state) ==
    [of |-> of, alias |-> TRUE, state |-> StoreGet(state), produced |-> StoreGet(state)]

\* get() { return { ...globalState } }: a new object with the contents of now
WrapperGet(of, state) ==
    [of |-> of, alias |-> FALSE, state |-> StoreGet(state), produced |-> StoreGet(state)]

\* globalState = { ... } in update and set: the wrapper holds a new object, and
\* the object it held keeps its contents
Rebound(list, of) ==
    [i \in 1..Len(list) |->
        IF list[i].of = of THEN [list[i] EXCEPT !.alias = FALSE] ELSE list[i]]

\* globalState[prop] = value in setValue: the object the wrapper holds has
\* the new contents, under every reference to it
SetValue(list, of, contents) ==
    [i \in 1..Len(list) |->
        IF list[i].of = of /\ list[i].alias
        THEN [list[i] EXCEPT !.state = StoreGet(contents)]
        ELSE list[i]]

\* subscriber(globalState.get()) for the subscribers of a pass: each is handed
\* an object of its own; the objects of one pass are alike, and the history
\* follows one of them
Handed(of, state, invoked) ==
    IF invoked = <<>> THEN <<>> ELSE <<WrapperGet(of, state)>>

\* The history follows the latest MaxTaken objects, and only when asked to.
Taken(list) ==
    IF "objects" \notin recording THEN <<>>
    ELSE IF Len(list) <= MaxTaken THEN list
    ELSE SubSeq(list, Len(list) - MaxTaken + 1, Len(list))

(***************************************************************************)
(* notifySubscribers (lines 227-252).  The sets of the contexts are walked *)
(* in order; a subscriber already in invokedSubscribers is skipped; a      *)
(* subscriber that throws ends the walk, since nothing catches.            *)
(***************************************************************************)
\* contexts.map((context) => subscribers.get(context)!), laid end to end
RECURSIVE ContextSubscribers(_, _)
ContextSubscribers(contexts, registry) ==
    IF contexts = <<>> THEN <<>>
    ELSE registry[Head(contexts)] \o ContextSubscribers(Tail(contexts), registry)

\* A pass that keeps no set of invoked subscribers
NeverInvoked(subscriber, invoked) == FALSE

\* reduceEach's test: has the subscriber been invoked in this pass
AlreadyInvoked(subscriber, invoked) == subscriber \in Range(invoked)

RECURSIVE ReduceEach(_, _, _)
ReduceEach(list, invoked, closures) ==
    IF list = <<>> THEN [invoked |-> invoked, threw |-> FALSE]
    ELSE IF AlreadyInvoked(Head(list), invoked)
         THEN ReduceEach(Tail(list), invoked, closures)
         ELSE IF closures[Head(list)].throws
              THEN [invoked |-> Append(invoked, Head(list)), threw |-> TRUE]
              ELSE ReduceEach(Tail(list), Append(invoked, Head(list)), closures)

NotifySubscribers(contexts, registry, closures) ==
    ReduceEach(ContextSubscribers(contexts, registry), <<>>, closures)

(***************************************************************************)
(* dispatchUpdate (lines 270-291): merge, then one notification pass over  *)
(* the keys of the patch.  The result names the new state, the snapshot    *)
(* globalState.get() handed to the subscribers, the subscribers invoked in *)
(* order, and whether one of them threw out of the call.                   *)
(***************************************************************************)
\* The state the subscribers of a pass read: globalState.get() after the merge.
DeliveredState(before, after) == StoreGet(after)

\* An update that puts the old state back when a subscriber throws
DispatchUpdateRollback(state, updatedValues, registry, closures) ==
    LET merged == StoreUpdate(state, updatedValues)
        pass == NotifySubscribers(Keys(updatedValues), registry, closures)
    IN  [state |-> IF pass.threw THEN state ELSE merged,
         delivered |-> DeliveredState(state, merged),
         invoked |-> pass.invoked,
         threw |-> pass.threw]

DispatchUpdate(state, updatedValues, registry, closures) ==
    LET merged == StoreUpdate(state, updatedValues)
        pass == NotifySubscribers(Keys(updatedValues), registry, closures)
    IN  [state |-> merged,
         delivered |-> DeliveredState(state, merged),
         invoked |-> pass.invoked,
         threw |-> pass.threw]

\* History of the patches: each key of the patch now holds the patch's value.
RecordPatch(history, updatedValues) ==
    [f \in Fields |->
        IF HasKey(updatedValues, f) THEN <<PatchValue(updatedValues, f)>> ELSE history[f]]

(***************************************************************************)
(* The argument of dispatchUpdate as JavaScript sees it (lines 270-278):   *)
(* a value with a type.  Numbers carry their value; the fields of an       *)
(* object are a patch; a function is known by what its body does.          *)
(***************************************************************************)
Null == [type |-> "null"]
Undefined == [type |-> "undefined"]
String == [type |-> "string"]
Boolean == [type |-> "boolean"]
Num(n) == [type |-> "number", n |-> n]
Obj(p) == [type |-> "object", patch |-> p]

\* () => r: takes no notice of its arguments
ConstantFunction(r) == [type |-> "function", body |-> "constant", returns |-> r]

\* state => ({ a: state.a + 1 })
StateReducer == [type |-> "function", body |-> "state.a + 1"]

\* c => c + 1, given as the value of a field
FieldReducer == [type |-> "function", body |-> "c + 1"]

NumberValues == {Num(v) : v \in Values}
Primitives == {Null, Undefined, String, Boolean} \cup NumberValues

\* What a field of the store can come to hold: the wrapper stores whatever
\* value the patch has under the key.
StoredValues == NumberValues \cup {FieldReducer}

\* The objects update is called with: numbers under one key or under both,
\* and the function c => c + 1 under "a".
ValuePatches ==
    {<<>>, <<<<"a", FieldReducer>>>>}
    \cup {<<<<f, v>>>> : f \in Fields, v \in NumberValues}
    \cup {<<<<"a", v>>, <<"b", w>>>> : v \in NumberValues, w \in NumberValues}

\* The patches the constant functions of the model return.
ReturnedPatches == {<<>>, <<<<"a", Num(MaxVal)>>>>}

\* The values update is called with.
ValueInputs ==
    Primitives
    \cup {Obj(p) : p \in ValuePatches}
    \cup {ConstantFunction(r) : r \in Primitives \cup {Obj(p) : p \in ReturnedPatches}}
    \cup {StateReducer}

\* x + 1 in JavaScript: a number for a number, a string for a function
PlusOne(x) == IF x.type = "number" THEN Num(x.n + 1) ELSE String

\* A call of a function of the model with the list of arguments args.  The
\* parameter of StateReducer is undefined when no argument is given, and
\* reading a property of undefined throws a TypeError.
CallFunction(fn, args) ==
    IF fn.body = "constant" THEN [threw |-> FALSE, value |-> fn.returns]
    ELSE IF args = <<>> THEN [threw |-> TRUE, value |-> Undefined]
    ELSE [threw |-> FALSE, value |-> Obj(<<<<"a", PlusOne(args[1]["a"])>>>>)]

\* value(): the function is called with no argument (line 273)
FunctionArguments(state) == <<>>

\* const updatedValues = typeof value === "function" ? value() : value
ResolveValue(value, state) ==
    IF value.type = "function"
    THEN [args |-> <<FunctionArguments(state)>>] @@ CallFunction(value, FunctionArguments(state))
    ELSE [args |-> <<>>, threw |-> FALSE, value |-> value]

\* A test that lets every value but null and undefined through
IsObjectShapedOrPrimitive(updatedValues) == updatedValues.type \notin {"null", "undefined"}

\* The negation of (!updatedValues || typeof updatedValues !== "object"):
\* typeof null is "object", but null is falsy
IsObjectShaped(updatedValues) == updatedValues.type = "object"

\* The keys a spread or Object.keys finds in the value
OwnPatch(value) == IF value.type = "object" THEN value.patch ELSE <<>>

\* Object.keys(value).join(" | "), kept as the list of keys, and
\* globalState.get(): what reduxDevTools.send is called with (line 286)
DevToolsMessage(value, state) == [label |-> Keys(OwnPatch(value)), state |-> StoreGet(state)]

\* A dispatchUpdate that tells the dev tools after the subscribers
DispatchValueSendsLast(state, value, registry, closures, devTools) ==
    LET resolved == ResolveValue(value, state)
        updatedValues == resolved.value
        d == DispatchUpdate(state, OwnPatch(updatedValues), registry, closures)
        untouched == [state |-> state, delivered |-> state, invoked |-> <<>>,
                      patch |-> <<>>, sent |-> <<>>, args |-> resolved.args]
    IN  IF resolved.threw
        THEN untouched @@ [threw |-> TRUE, error |-> "TypeError"]
        ELSE IF ~IsObjectShaped(updatedValues)
        THEN untouched @@ [threw |-> FALSE, error |-> "none"]
        ELSE [state |-> d.state, delivered |-> d.delivered, invoked |-> d.invoked,
              patch |-> OwnPatch(updatedValues),
              sent |-> IF devTools /\ ~d.threw
                       THEN <<DevToolsMessage(value, d.state)>> ELSE <<>>,
              args |-> resolved.args,
              threw |-> d.threw,
              error |-> IF d.threw THEN "subscriber" ELSE "none"]

\* A dispatchUpdate whose message to the dev tools takes the place of the
\* notification of the subscribers
DispatchValueBridgeSilences(state, value, registry, closures, devTools) ==
    LET resolved == ResolveValue(value, state)
        updatedValues == resolved.value
        d == DispatchUpdate(state, OwnPatch(updatedValues), registry, closures)
        untouched == [state |-> state, delivered |-> state, invoked |-> <<>>,
                      patch |-> <<>>, sent |-> <<>>, args |-> resolved.args]
    IN  IF resolved.threw
        THEN untouched @@ [threw |-> TRUE, error |-> "TypeError"]
        ELSE IF ~IsObjectShaped(updatedValues)
        THEN untouched @@ [threw |-> FALSE, error |-> "none"]
        ELSE [state |-> d.state, delivered |-> d.delivered,
              invoked |-> IF devTools THEN <<>> ELSE d.invoked,
              patch |-> OwnPatch(updatedValues),
              sent |-> IF devTools THEN <<DevToolsMessage(value, d.state)>> ELSE <<>>,
              args |-> resolved.args,
              threw |-> IF devTools THEN FALSE ELSE d.threw,
              error |-> IF d.threw /\ ~devTools THEN "subscriber" ELSE "none"]

\* dispatchUpdate for any value (lines 270-291).  The result adds to that of
\* DispatchUpdate the arguments the function was called with, the resolved
\* patch, the error thrown and the messages sent to the dev tools.
DispatchValue(state, value, registry, closures, devTools) ==
    LET resolved == ResolveValue(value, state)
        updatedValues == resolved.value
        d == DispatchUpdate(state, OwnPatch(updatedValues), registry, closures)
        untouched == [state |-> state, delivered |-> state, invoked |-> <<>>,
                      patch |-> <<>>, sent |-> <<>>, args |-> resolved.args]
    IN  IF resolved.threw
        THEN untouched @@ [threw |-> TRUE, error |-> "TypeError"]
        ELSE IF ~IsObjectShaped(updatedValues)
        THEN untouched @@ [threw |-> FALSE, error |-> "none"]
        ELSE [state |-> d.state, delivered |-> d.delivered, invoked |-> d.invoked,
              patch |-> OwnPatch(updatedValues),
              sent |-> IF devTools THEN <<DevToolsMessage(value, d.state)>> ELSE <<>>,
              args |-> resolved.args,
              threw |-> d.threw,
              error |-> IF d.threw THEN "subscriber" ELSE "none"]

(***************************************************************************)
(* The handler of the dev tools' messages (lines 258-266), for a DISPATCH  *)
(* message whose state parses to the object parsed.                        *)
(***************************************************************************)
\* globalState.keys() right after set(parsed): the keys of the object that was
\* spread into the new state, in their order
KeysAfterSet(parsed) == Keys(parsed)

DevToolsDispatch(parsed, registry, closures) ==
    LET replaced == StoreSet(parsed)
        pass == NotifySubscribers(KeysAfterSet(parsed), registry, closures)
    IN  [state |-> replaced,
         delivered |-> StoreGet(replaced),
         invoked |-> pass.invoked,
         threw |-> pass.threw]

(***************************************************************************)
(* internalSubscribe (lines 294-304).                                      *)
(***************************************************************************)
\* subscribers.get(context)!.add(subscriber), for each context
AddSubscriber(registry, contexts, subscriber) ==
    [f \in Fields |->
        IF f \in contexts /\ subscriber \notin Range(registry[f])
        THEN Append(registry[f], subscriber)
        ELSE registry[f]]

\* A returned function that clears the sets of its contexts
DeleteSubscriberClears(registry, contexts, subscriber) ==
    [f \in Fields |-> IF f \in contexts THEN <<>> ELSE registry[f]]

\* A returned function that deletes the subscriber from the set of "a" alone
DeleteSubscriberFromOne(registry, contexts, subscriber) ==
    [f \in Fields |->
        IF f \in contexts /\ f = "a" THEN Remove(registry[f], subscriber) ELSE registry[f]]

\* the returned function: subscribers.get(context)!.delete(subscriber), for each context
DeleteSubscriber(registry, contexts, subscriber) ==
    [f \in Fields |->
        IF f \in contexts THEN Remove(registry[f], subscriber) ELSE registry[f]]

\* A closure is known by its number; callback is the number of the first closure
\* that was made around the same callback function (0: none).
FreeClosure ==
    [status |-> "free", kind |-> "callback", contexts |-> {}, throws |-> FALSE,
     callback |-> 0]

\* A closure whose unsubscribe function has been called.  The function keeps
\* the contexts of its call (line 303); what the closure did is of no
\* account any more.
RemovedClosure(contexts) ==
    [status |-> "removed", kind |-> "callback", contexts |-> contexts, throws |-> FALSE,
     callback |-> 0]

NoCall == [op |-> "none"]

(***************************************************************************)
(* pending (lines 377-404).  The loop stops at the first context whose     *)
(* count would drop below 0: the contexts before it keep their new counts. *)
(***************************************************************************)
\* A decrement that is clamped at 0 instead of being refused
PendingNewValueClamped(count, state) ==
    IF state THEN count + 1 ELSE IF count = 0 THEN 0 ELSE count - 1

\* pendingCount.getValue(context) + (state ? 1 : -1)
PendingNewValue(count, state) == count + (IF state THEN 1 ELSE -1)

\* A pending without the check of the new value
PendingNeverThrows(newValue) == FALSE

\* if (newValue < 0) throw
PendingThrows(newValue) == newValue < 0

\* A boolean flag in place of the count: pendingState.setValue(context, state)
PendingFlag(newValue, state) == state

\* An off-by-one test of the count: newValue >= 0
PendingNewStateFromZero(newValue, state) == newValue >= 0

\* A state that turns true only with the second operation: newValue > 1
PendingNewStateAboveOne(newValue, state) == newValue > 1

\* pendingState.setValue(context, newValue > 0)
PendingNewState(newValue, state) == newValue > 0

RECURSIVE PendingLoop(_, _, _, _)
PendingLoop(contextList, state, count, pstate) ==
    IF contextList = <<>> THEN [count |-> count, state |-> pstate, threw |-> FALSE]
    ELSE LET context == Head(contextList)
             newValue == PendingNewValue(count[context], state)
         IN  IF PendingThrows(newValue)
             THEN [count |-> count, state |-> pstate, threw |-> TRUE]
             ELSE PendingLoop(Tail(contextList), state,
                              [count EXCEPT ![context] = newValue],
                              [pstate EXCEPT ![context] = PendingNewState(newValue, state)])

Pending(contexts, state, count, pstate) == PendingLoop(contexts, state, count, pstate)

\* What a pending call changed in the counts, field by field.
NetChange(before, after) == [f \in Fields |-> after[f] - before[f]]

NoChange == [f \in Fields |-> 0]

(***************************************************************************)
(* action (lines 332-350).                                                 *)
(***************************************************************************)
\* A commit into the state the resolver was given: { ...snapshot, ...value }
ActionCommitStale(current, snapshot, value, registry, closures) ==
    DispatchValue(snapshot, Obj(value), registry, closures, reduxDevTools)

\* A commit that notifies the subscribers of every field, whatever the patch
ActionCommitNotifiesAll(current, snapshot, value, registry, closures) ==
    LET d == DispatchValue(current, Obj(value), registry, closures, reduxDevTools)
        pass == NotifySubscribers(StoreKeys, registry, closures)
    IN  [d EXCEPT !.invoked = pass.invoked, !.threw = pass.threw]

\* if (value) dispatchUpdate(value): the merge goes into the wrapper's current
\* state, and the dev tools hear of it when they are connected
ActionCommit(current, snapshot, value, registry, closures) ==
    DispatchValue(current, Obj(value), registry, closures, reduxDevTools)

\* The reset after the dispatch instead of in a finally block: a failure skips it
ActionNoFinally(affectedContexts, failed, count, pstate) ==
    IF failed THEN [count |-> count, state |-> pstate, threw |-> FALSE]
    ELSE Pending(affectedContexts, FALSE, count, pstate)

\* A reset that takes back the first of the affected contexts only
ActionFinallyFirstOnly(affectedContexts, failed, count, pstate) ==
    Pending(IF affectedContexts = <<>> THEN <<>> ELSE <<affectedContexts[1]>>,
            FALSE, count, pstate)

\* finally { createdStore.pending(affectedContexts, false) }
ActionFinally(affectedContexts, failed, count, pstate) ==
    Pending(affectedContexts, FALSE, count, pstate)

\* The error the async function ends with: one thrown in the finally block
\* replaces the one that was on its way out of the try block.
ActionError(resolverFailed, dispatchThrew, finallyThrew) ==
    IF finallyThrew THEN "imbalance"
    ELSE IF resolverFailed THEN "resolver"
    ELSE IF dispatchThrew THEN "subscriber"
    ELSE "none"

\* An action that catches the failure and resolves
ActionPromiseSwallows(error) == "resolved"

\* The promise of the async function rejects with the error, if there is one.
ActionPromise(error) == IF error = "none" THEN "resolved" ELSE "rejected"

\* A copy of the fields, as get() makes it (lines 157-159, 352-354)
Snapshot(state) == [kind |-> "snapshot", state |-> StoreGet(state)]

\* return globalState (line 349): the object createStoreWrapper returned, with
\* its methods update, get, getValue, setValue, set and keys; state is what its
\* get() answers at the time of the return.
ActionReturn(state) == [kind |-> "wrapper", state |-> StoreGet(state)]

\* What the promise of a call settles with.
ActionSettlesWith(error, state) ==
    IF ActionPromise(error) = "resolved" THEN ActionReturn(state) ELSE [kind |-> error]

IdleAct == [pc |-> "idle", affected |-> <<>>, snapshot |-> NoState, net |-> NoChange]

\* The lists of affected contexts the actions of the model are created with.
AffectedLists == {<<>>, <<"a">>, <<"b">>, <<"a", "b">>}

\* What the resolver's awaited value can turn out to be.
ResolverResults ==
    {[kind |-> "reject", patch |-> <<>>], [kind |-> "undefined", patch |-> <<>>]}
    \cup {[kind |-> "patch", patch |-> p] : p \in Patches}

\* Invocations that are suspended at the await and list f as affected, counted
\* once per occurrence of f in the list.
RECURSIVE InFlightOver(_, _)
InFlightOver(f, I) ==
    IF I = {} THEN 0
    ELSE LET i == CHOOSE x \in I : TRUE
         IN  (IF acts[i].pc = "awaiting" THEN Occurrences(f, acts[i].affected) ELSE 0)
             + InFlightOver(f, I \ {i})

InFlight(f) == InFlightOver(f, Acts)

(***************************************************************************)
(* The store of Squawk.tsx (createStore, lines 20-224), with its reducers   *)
(* and the components that connect wraps, and the Stack of Utils.ts.        *)
(***************************************************************************)
\* The store right after createStore (lines 26-30, 118-121), created with a
\* number in every event.
NewConnectStore ==
    [state |-> [f \in Fields |-> Num(0)],
     functionComponentCallbacks |-> <<>>,
     classComponentCallbacks |-> <<>>,
     functionalComponentContexts |-> <<>>,
     renderingFunctionalComponent |-> FALSE]

\* Stack.peek (Utils.ts 8-13)
StackPeek(stack) ==
    IF stack = <<>> THEN [threw |-> TRUE, item |-> 0]
    ELSE [threw |-> FALSE, item |-> stack[Len(stack)]]

\* get(event) (Squawk.tsx 38-46): the store it leaves and whether it threw.
TrackedGet(store, event) ==
    LET top == StackPeek(store.functionalComponentContexts)
        handler == store.functionComponentCallbacks[top.item]
    IN  IF ~store.renderingFunctionalComponent
        THEN [store |-> store, threw |-> FALSE]
        ELSE IF top.threw
        THEN [store |-> store, threw |-> TRUE]
        ELSE [store |-> [store EXCEPT !.functionComponentCallbacks[top.item] =
                            [handler EXCEPT !.events = @ \cup {event}]],
              threw |-> FALSE]

\* The reducers update is called with: none (a pure event), value => value,
\* and functions that return a number or undefined whatever they are given.
Reducers ==
    {[kind |-> "none"], [kind |-> "identity"]}
    \cup {[kind |-> "constant", returns |-> v] : v \in NumberValues \cup {Undefined}}

\* const newValue = !!reducer ? reducer(state[event]) : undefined (line 85)
NewValue(reducer, current) ==
    IF reducer.kind = "none" THEN Undefined
    ELSE IF reducer.kind = "identity" THEN current
    ELSE reducer.returns

\* A test that takes undefined for unchanged as well
UnchangedOrUndefined(current, newValue) == current = newValue

\* state[event] === newValue && newValue !== undefined (line 90)
Unchanged(current, newValue) == current = newValue /\ newValue # Undefined

(***************************************************************************)
(* The initial state: the store right after createStore (lines 185-224).   *)
(***************************************************************************)
Init ==
    /\ globalState \in States
    /\ recording \in SUBSET {"patches", "snapshots", "objects", "delivered"}
    /\ reduxDevTools \in BOOLEAN
    /\ initialState = IF "patches" \in recording THEN globalState ELSE NoState
    /\ lastPatch = [f \in Fields |-> <<>>]
    /\ subscribers = [f \in Fields |-> <<>>]
    /\ subs = [s \in Subs |-> FreeClosure]
    /\ pendingSubscribers = [f \in Fields |-> <<>>]
    /\ taken = <<>>
    /\ connectStore = NewConnectStore
    /\ pendingCount = [f \in Fields |-> 0]
    /\ pendingState = [f \in Fields |-> FALSE]
    /\ held = [f \in Fields |-> 0]
    /\ acts = [i \in Acts |-> IdleAct]
    /\ lastCall = NoCall

(***************************************************************************)
(* createStore up to the dev tools (lines 185-256), for any value given    *)
(* as initialState.                                                        *)
(***************************************************************************)
Array == [type |-> "array"]

\* What a field of the object given to createStore holds.
InitialFieldValues == NumberValues \cup {Undefined, Null}

\* The objects createStore is called with: every field of the schema holds a
\* value or is missing from the object.
InitialPatches ==
    {<<>>}
    \cup {<<<<f, v>>>> : f \in Fields, v \in InitialFieldValues}
    \cup {<<<<"a", v>>, <<"b", w>>>> : v \in InitialFieldValues, w \in InitialFieldValues}

InitialValues ==
    {Null, Undefined, String, Boolean, Num(0), Array} \cup {Obj(p) : p \in InitialPatches}

\* typeof: null and arrays are objects
TypeOf(value) == IF value.type \in {"null", "array"} THEN "object" ELSE value.type

\* A test that also turns away an object that lacks a field of the schema
RootRejectedOrPartial(value) ==
    \/ value.type \in {"null", "undefined"}
    \/ TypeOf(value) # "object"
    \/ value.type = "array"
    \/ \E f \in Fields : ~HasKey(value.patch, f)

\* initialState == null || typeof initialState !== "object" || Array.isArray(initialState)
RootRejected(value) ==
    \/ value.type \in {"null", "undefined"}
    \/ TypeOf(value) # "object"
    \/ value.type = "array"

\* The store before createStore has run: no wrapper, no map has an entry.
NoStore == <<>>

(***************************************************************************)
(* The subscriber of a hook (lines 307-328, 452-454, 503-505): the closure *)
(* useIfMounted returns around value => localDispatcher(value).  A closure *)
(* of a hook holds, next to the fields of every closure: tracked, the set  *)
(* contexts.current; reads, the fields read through the proxy in the last  *)
(* render; isMounted, isMounted.current; local, the state of useState.     *)
(* status "rendered" is a component whose effects have not run yet;        *)
(* contexts holds what the effect registered (_contexts).                  *)
(***************************************************************************)
HookKinds == {"useSquawk", "usePending"}

\* if (isMounted.current) { action(...args) }, with action = localDispatcher
IfMounted(closure, value) ==
    IF closure.kind \in HookKinds /\ closure.isMounted
    THEN [closure EXCEPT !.local = value]
    ELSE closure

\* (state) => callback(state[context]), the closure subscribe makes (line
\* 407): the callback is handed the value of its context.  History: the last
\* value it was handed.
SubscribeClosure(closure, state) ==
    IF closure.kind = "callback" /\ "delivered" \in recording
    THEN [last |-> state[CHOOSE f \in closure.contexts : TRUE]] @@ closure
    ELSE closure

\* What a notification pass that invoked the closures of the list invoked with
\* value leaves of the closures.
InvokeEach(closures, invoked, value) ==
    [s \in Subs |-> IF s \in Range(invoked)
                    THEN SubscribeClosure(IfMounted(closures[s], value), value)
                    ELSE closures[s]]

\* History: the callbacks whose context the merge of updatedValues (line 281)
\* has written since they were subscribed.
MarkWritten(closures, updatedValues) ==
    [s \in Subs |->
        IF /\ "delivered" \in recording
           /\ closures[s].status = "active"
           /\ closures[s].kind = "callback"
           /\ \E f \in closures[s].contexts : HasKey(updatedValues, f)
        THEN [written |-> TRUE] @@ closures[s]
        ELSE closures[s]]

\* A pass over the subscribers of the first context of the list only
PendingInvokedFirstContext(contextList, threw, registry, closures) ==
    IF threw \/ contextList = <<>> THEN <<>>
    ELSE NotifySubscribers(<<contextList[1]>>, registry, closures).invoked

\* pending's pass over pendingSubscribersInternal (lines 382-403): the unique
\* subscribers of the contexts of the list, each invoked with pendingState.get();
\* a call that throws in its loop never gets there.
PendingInvoked(contextList, threw, registry, closures) ==
    IF threw THEN <<>> ELSE NotifySubscribers(contextList, registry, closures).invoked

(***************************************************************************)
(* The operations.                                                         *)
(***************************************************************************)
\* get() (lines 352-354): the caller keeps the object it is handed.
Get ==
    /\ taken' = Taken(taken \o <<WrapperGet("globalState", globalState)>>)
    /\ lastCall' = [op |-> "get"]
    /\ UNCHANGED <<valueVars, subVars, pendingVars, held, acts, initialState, recording,
                   reduxDevTools, connectStore, pendingSubscribers>>

\* createStore(initialState, useReduxDevTools) (lines 185-256), called with the
\* value that initialState holds: the check of the root value, the wrapper
\* around a copy of the object, and a set of subscribers, a set of pending
\* subscribers, a pending count of 0 and a pending state of false for each key
\* the wrapper has.
CreateStore ==
    LET keys == Range(KeysAfterSet(OwnPatch(initialState)))
    IN  /\ lastCall.op = "none"
        /\ IF RootRejected(initialState)
           THEN /\ lastCall' = [op |-> "createStore", threw |-> TRUE,
                                error |-> "Root store value must be an object"]
                /\ UNCHANGED <<globalState, subscribers, pendingSubscribers, pendingVars>>
           ELSE /\ globalState' = StoreSet(OwnPatch(initialState))
                /\ subscribers' = [f \in keys |-> <<>>]
                /\ pendingSubscribers' = [f \in keys |-> <<>>]
                /\ pendingCount' = [f \in keys |-> 0]
                /\ pendingState' = [f \in keys |-> FALSE]
                /\ lastCall' = [op |-> "createStore", threw |-> FALSE, error |-> "none"]
        /\ UNCHANGED <<lastPatch, subs, held, acts, initialState, recording, reduxDevTools,
                       connectStore, taken>>

\* update(value) (lines 427-429) with an object as value
Update(value) ==
    LET d == DispatchValue(globalState, Obj(value), subscribers, subs, reduxDevTools)
    IN  /\ globalState' = d.state
        /\ lastPatch' = IF "patches" \in recording
                        THEN RecordPatch(lastPatch, value) ELSE lastPatch
        /\ lastCall' = [op |-> "update", patch |-> value, delivered |-> d.delivered,
                        invoked |-> d.invoked, threw |-> d.threw, sent |-> d.sent]
        /\ subs' = MarkWritten(InvokeEach(subs, d.invoked, d.delivered), value)
        /\ taken' = Taken(Rebound(taken, "globalState")
                            \o Handed("globalState", d.state, d.invoked))
        /\ UNCHANGED <<subscribers, pendingVars, held, acts, initialState, recording,
                       reduxDevTools, connectStore,
                       pendingSubscribers>>

\* An update of field "a" alone with the function c => c + 1 as its value
IsIncrementOfA(value) == value = Obj(<<<<"a", FieldReducer>>>>)

\* History: how many updates of "a" with c => c + 1 have followed each other,
\* beginning where "a" was 0; 0 outside such a run, and after the third.
IncrementRun(value) ==
    IF ~IsIncrementOfA(value) THEN 0
    ELSE IF globalState["a"] = Num(0) THEN 1
    ELSE IF lastCall.op = "update" /\ lastCall.run \in {1, 2} THEN lastCall.run + 1
    ELSE 0

\* update(value) with any value (lines 427-429): the type of the parameter is
\* erased at run time, and dispatchUpdate takes what it is given.
UpdateValue(value) ==
    LET d == DispatchValue(globalState, value, subscribers, subs, reduxDevTools)
    IN  /\ globalState' = d.state
        /\ lastCall' = [op |-> "update", value |-> value, args |-> d.args,
                        patch |-> d.patch, delivered |-> d.delivered,
                        invoked |-> d.invoked, threw |-> d.threw, error |-> d.error,
                        sent |-> d.sent, run |-> IncrementRun(value)]
        /\ subs' = InvokeEach(subs, d.invoked, d.delivered)
        /\ taken' = Taken((IF d.error = "TypeError" \/ ~IsObjectShaped(ResolveValue(value, globalState).value)
                             THEN taken ELSE Rebound(taken, "globalState"))
                            \o Handed("globalState", d.state, d.invoked))
        /\ UNCHANGED <<lastPatch, subscribers, pendingVars, held, acts, initialState,
                       recording, reduxDevTools, connectStore,
                       pendingSubscribers>>

\* A DISPATCH message of the dev tools with a state (lines 258-266).
Replay(parsed) ==
    LET d == DevToolsDispatch(parsed, subscribers, subs)
    IN  /\ reduxDevTools
        /\ globalState' = d.state
        /\ lastCall' = [op |-> "replay", snapshot |-> parsed, delivered |-> d.delivered,
                        invoked |-> d.invoked, threw |-> d.threw, sent |-> <<>>]
        /\ subs' = InvokeEach(subs, d.invoked, d.delivered)
        /\ taken' = Taken(Rebound(taken, "globalState")
                            \o Handed("globalState", d.state, d.invoked))
        /\ UNCHANGED <<lastPatch, subscribers, pendingVars, held, acts, initialState,
                       recording, reduxDevTools, connectStore,
                       pendingSubscribers>>

\* The closures are numbered in the order of their creation.
Subscribe(s, context, throws) ==
    /\ subs[s].status = "free"
    /\ \A r \in Subs : r < s => subs[r].status # "free"
    /\ subs' = [subs EXCEPT ![s] = [status |-> "active", kind |-> "callback",
                                    contexts |-> {context}, throws |-> throws,
                                    callback |-> s]]
    /\ subscribers' = AddSubscriber(subscribers, {context}, s)
    /\ lastCall' = [op |-> "subscribe"]
    /\ UNCHANGED <<valueVars, pendingVars, held, acts, initialState, recording, reduxDevTools,
                   connectStore,
                       pendingSubscribers, taken>>

\* subscribe(context, callback) with the callback function that was given to
\* the call that made closure r: line 407 makes another closure around it.
SubscribeAgain(s, context, r) ==
    /\ subs[s].status = "free"
    /\ \A q \in Subs : q < s => subs[q].status # "free"
    /\ subs[r].status = "active"
    /\ subs[r].kind = "callback"
    /\ subs' = [subs EXCEPT ![s] = [status |-> "active", kind |-> "callback",
                                    contexts |-> {context}, throws |-> subs[r].throws,
                                    callback |-> subs[r].callback]]
    /\ subscribers' = AddSubscriber(subscribers, {context}, s)
    /\ lastCall' = [op |-> "subscribe"]
    /\ UNCHANGED <<valueVars, pendingVars, held, acts, initialState, recording, reduxDevTools,
                   connectStore,
                       pendingSubscribers, taken>>

\* The effect of useSquawk (lines 521-523): the component's subscriber is
\* registered under the contexts the component has read.
UseSquawkEffect(s, contexts) ==
    /\ subs[s].status = "free"
    /\ \A r \in Subs : r < s => subs[r].status # "free"
    /\ subs' = [subs EXCEPT ![s] = [status |-> "active", kind |-> "component",
                                    contexts |-> contexts, throws |-> FALSE,
                                    callback |-> s]]
    /\ subscribers' = AddSubscriber(subscribers, contexts, s)
    /\ lastCall' = [op |-> "subscribe"]
    /\ UNCHANGED <<valueVars, pendingVars, held, acts, initialState, recording, reduxDevTools,
                   connectStore,
                       pendingSubscribers, taken>>

\* The function internalSubscribe returned (line 303), which deletes the
\* closure from the sets of the contexts of its call.  It can be called again.
Unsubscribe(s) ==
    /\ subs[s].status \in {"active", "removed"}
    /\ subs' = [subs EXCEPT ![s] = RemovedClosure(subs[s].contexts)]
    /\ subscribers' = DeleteSubscriber(subscribers, subs[s].contexts, s)
    /\ lastCall' = [op |-> "unsubscribe"]
    /\ UNCHANGED <<valueVars, pendingVars, held, acts, initialState, recording, reduxDevTools,
                   connectStore,
                       pendingSubscribers, taken>>

\* The first render of a component that calls useSquawk() or usePending()
\* (lines 450-466, 501-519): useState takes the current state, useRef(true)
\* and useRef(new Set(explicitContexts)) are made, and the render reads the
\* fields reads through the proxy.  The effects have not run yet.
Render(c, kind, explicitContexts, reads) ==
    /\ subs[c].status = "free"
    /\ \A r \in Subs : r < c => subs[r].status # "free"
    /\ subs' = [subs EXCEPT ![c] =
           [status |-> "rendered", kind |-> kind, contexts |-> {}, throws |-> FALSE,
            callback |-> c, explicit |-> explicitContexts,
            tracked |-> explicitContexts \cup reads, reads |-> reads,
            isMounted |-> TRUE,
            local |-> IF kind = "useSquawk" THEN StoreGet(globalState)
                      ELSE StoreGet(pendingState)]]
    /\ lastCall' = [op |-> "render"]
    /\ taken' = Taken(taken \o <<IF kind = "useSquawk"
                                 THEN WrapperGet("globalState", globalState)
                                 ELSE WrapperGet("pendingState", pendingState)>>)
    /\ UNCHANGED <<valueVars, subscribers, pendingVars, held, acts, initialState,
                   recording, reduxDevTools, connectStore, pendingSubscribers>>

\* The effects of the component after its first render (lines 311-320,
\* 469-480, 521-523): isMounted.current = true, and the subscriber is added
\* to the sets of the contexts that contexts.current holds now.
Effect(c) ==
    /\ subs[c].status = "rendered"
    /\ subs' = [subs EXCEPT ![c] = [subs[c] EXCEPT !.status = "active",
                                                    !.isMounted = TRUE,
                                                    !.contexts = subs[c].tracked]]
    /\ IF subs[c].kind = "useSquawk"
       THEN /\ subscribers' = AddSubscriber(subscribers, subs[c].tracked, c)
            /\ UNCHANGED pendingSubscribers
       ELSE /\ pendingSubscribers' = AddSubscriber(pendingSubscribers, subs[c].tracked, c)
            /\ UNCHANGED subscribers
    /\ lastCall' = [op |-> "effect"]
    /\ UNCHANGED <<valueVars, pendingVars, held, acts, initialState, recording,
                   reduxDevTools, connectStore, taken>>

\* A later render of the mounted component: the reads through the proxy go
\* into contexts.current (lines 460-463, 512-515).  The dependencies of the
\* effects ([], [subscriber], [contexts, subscriber]) are the same objects as
\* in the render before, so no cleanup and no effect runs.
Rerender(c, reads) ==
    /\ subs[c].status = "active"
    /\ subs[c].kind \in HookKinds
    /\ subs' = [subs EXCEPT ![c] = [subs[c] EXCEPT !.tracked = subs[c].tracked \cup reads,
                                                    !.reads = reads]]
    /\ lastCall' = [op |-> "render"]
    /\ UNCHANGED <<valueVars, subscribers, pendingVars, held, acts, initialState,
                   recording, reduxDevTools, connectStore, pendingSubscribers, taken>>

\* The component is unmounted: the cleanups run (lines 316-319, 476-479, and
\* the function internalSubscribe returned, line 303).  Nothing reads through
\* the proxy of an unmounted component, so what it had read is of no account
\* any more; the subscriber, its isMounted and the local state are kept.
Unmount(c) ==
    /\ subs[c].status = "active"
    /\ subs[c].kind \in HookKinds
    /\ subs' = [subs EXCEPT ![c] = [subs[c] EXCEPT !.status = "removed",
                                                    !.isMounted = FALSE,
                                                    !.tracked = {},
                                                    !.reads = {}]]
    /\ IF subs[c].kind = "useSquawk"
       THEN /\ subscribers' = DeleteSubscriber(subscribers, subs[c].contexts, c)
            /\ UNCHANGED pendingSubscribers
       ELSE /\ pendingSubscribers' = DeleteSubscriber(pendingSubscribers, subs[c].contexts, c)
            /\ UNCHANGED subscribers
    /\ lastCall' = [op |-> "unmount"]
    /\ UNCHANGED <<valueVars, pendingVars, held, acts, initialState, recording,
                   reduxDevTools, connectStore, taken>>

\* pending(contexts, state) called directly (lines 377-404).  A direct caller
\* ends what direct calls began; it asks for more than that only on a context
\* no action in flight has marked, where the call meets a count of 0.
DirectPending(contexts, state) ==
    LET r == Pending(contexts, state, pendingCount, pendingState)
        change == NetChange(pendingCount, r.count)
        notified == PendingInvoked(contexts, r.threw, pendingSubscribers, subs)
    IN  /\ \A f \in Fields : r.count[f] <= MaxPending
        /\ ~state => \A f \in Range(contexts) :
                         Occurrences(f, contexts) <= held[f] \/ InFlight(f) = 0
        /\ pendingCount' = r.count
        /\ pendingState' = r.state
        /\ held' = [f \in Fields |-> held[f] + change[f]]
        /\ lastCall' = [op |-> "pending", contexts |-> contexts, state |-> state,
                        threw |-> r.threw, invoked |-> notified, delivered |-> r.state]
        /\ subs' = InvokeEach(subs, notified, r.state)
        /\ taken' = Taken(SetValue(taken, "pendingState", r.state)
                          \o Handed("pendingState", r.state, notified))
        /\ UNCHANGED <<valueVars, subscribers, acts, initialState, recording, reduxDevTools,
                       connectStore,
                       pendingSubscribers>>

\* What a call of an action left behind when its promise settled.
Settled(outcome, error, affectedContexts, net, snapshot, value, d) ==
    [op |-> "settle", outcome |-> outcome, promise |-> ActionPromise(error),
     error |-> error, affected |-> affectedContexts, net |-> net,
     snapshot |-> snapshot, patch |-> value, delivered |-> d.delivered,
     invoked |-> d.invoked, threw |-> d.threw, sent |-> d.sent,
     resolvedWith |-> ActionSettlesWith(error, d.state)]

NoDispatch(state) ==
    [state |-> state, delivered |-> state, invoked |-> <<>>, threw |-> FALSE,
     sent |-> <<>>]

\* A call of an operation made by action(resolver, affectedContexts), up to its
\* await (lines 333-338).  A resolver that throws takes the call through the
\* finally block at once.  The calls in flight take the lowest free place.
InvokeAction(i, affectedContexts, resolverThrows) ==
    LET begun == Pending(affectedContexts, TRUE, pendingCount, pendingState)
        ended == ActionFinally(affectedContexts, TRUE, begun.count, begun.state)
        error == ActionError(TRUE, FALSE, ended.threw)
        told == PendingInvoked(affectedContexts, begun.threw, pendingSubscribers, subs)
        marked == InvokeEach(subs, told, begun.state)
        given == SetValue(taken, "pendingState", begun.state)
                 \o Handed("pendingState", begun.state, told)
                 \o <<WrapperGet("globalState", globalState)>>
    IN  /\ acts[i].pc = "idle"
        /\ \A j \in Acts : j < i => acts[j].pc # "idle"
        /\ \A f \in Fields : begun.count[f] <= MaxPending
        /\ IF resolverThrows
           THEN /\ pendingCount' = ended.count
                /\ pendingState' = ended.state
                /\ acts' = acts
                /\ subs' = InvokeEach(marked,
                                      PendingInvoked(affectedContexts, ended.threw,
                                                     pendingSubscribers, marked),
                                      ended.state)
                /\ taken' = Taken(SetValue(given, "pendingState", ended.state)
                                  \o Handed("pendingState", ended.state,
                                            PendingInvoked(affectedContexts, ended.threw,
                                                           pendingSubscribers, marked)))
                /\ lastCall' = Settled("throw", error, affectedContexts,
                                       NetChange(pendingCount, ended.count),
                                       NoState, <<>>, NoDispatch(globalState))
           ELSE /\ pendingCount' = begun.count
                /\ pendingState' = begun.state
                /\ acts' = [acts EXCEPT ![i] =
                       [pc |-> "awaiting", affected |-> affectedContexts,
                        snapshot |-> IF "snapshots" \in recording
                                     THEN StoreGet(globalState) ELSE NoState,
                        net |-> NetChange(pendingCount, begun.count)]]
                /\ subs' = marked
                /\ taken' = Taken(given)
                /\ lastCall' = [op |-> "invoke"]
        /\ UNCHANGED <<valueVars, subscribers, held, initialState, recording, reduxDevTools,
                       connectStore,
                       pendingSubscribers>>

\* The continuation of a call after its await (lines 338-348): the awaited
\* value has settled as result.
ResumeAction(i, result) ==
    LET commits == result.kind = "patch"
        d == IF commits
             THEN ActionCommit(globalState, acts[i].snapshot, result.patch, subscribers, subs)
             ELSE NoDispatch(globalState)
        failed == result.kind = "reject" \/ d.threw
        ended == ActionFinally(acts[i].affected, failed, pendingCount, pendingState)
        error == ActionError(result.kind = "reject", d.threw, ended.threw)
        notified == InvokeEach(subs, d.invoked, d.delivered)
        told == PendingInvoked(acts[i].affected, ended.threw, pendingSubscribers, notified)
        committed == (IF commits THEN Rebound(taken, "globalState") ELSE taken)
                     \o Handed("globalState", d.state, d.invoked)
    IN  /\ acts[i].pc = "awaiting"
        /\ globalState' = d.state
        /\ lastPatch' = IF commits /\ "patches" \in recording
                        THEN RecordPatch(lastPatch, result.patch) ELSE lastPatch
        /\ pendingCount' = ended.count
        /\ pendingState' = ended.state
        /\ acts' = [acts EXCEPT ![i] = IdleAct]
        /\ lastCall' = Settled(IF result.kind = "reject" THEN "reject" ELSE result.kind,
                               error, acts[i].affected,
                               [f \in Fields |->
                                   acts[i].net[f] + NetChange(pendingCount, ended.count)[f]],
                               acts[i].snapshot, result.patch, d)
        /\ subs' = InvokeEach(notified, told, ended.state)
        /\ taken' = Taken(SetValue(committed, "pendingState", ended.state)
                          \o Handed("pendingState", ended.state, told))
        /\ UNCHANGED <<subscribers, held, initialState, recording, reduxDevTools, connectStore,
                       pendingSubscribers>>

(***************************************************************************)
(* The operations of the store of Squawk.tsx.                              *)
(***************************************************************************)
createdStoreVars ==
    <<globalState, subscribers, subs, pendingCount, pendingState, held, acts,
      initialState, lastPatch, recording, reduxDevTools, pendingSubscribers, taken>>

\* get(event) called by code that is not the render of a component.
ConnectGet(event) ==
    LET got == TrackedGet(connectStore, event)
    IN  /\ connectStore' = got.store
        /\ lastCall' = IF got.threw
                       THEN [op |-> "connectGet", event |-> event, threw |-> TRUE]
                       ELSE [op |-> "connectGet", event |-> event, threw |-> FALSE,
                             value |-> connectStore.state[event]]
        /\ UNCHANGED createdStoreVars

\* The render of the class that connect(Component) returned (lines 210-216),
\* after its constructor (202-208) when the component is new; Component reads
\* the event through get.
ConnectRender(c, event) ==
    LET constructed ==
            IF c \in DOMAIN connectStore.functionComponentCallbacks THEN connectStore
            ELSE [connectStore EXCEPT !.functionComponentCallbacks =
                     (c :> [events |-> {}]) @@ @]
        entered == [constructed EXCEPT !.renderingFunctionalComponent = TRUE,
                                       !.functionalComponentContexts = Append(@, c)]
        got == TrackedGet(entered, event)
    IN  /\ \A d \in 1..(c - 1) : d \in DOMAIN connectStore.functionComponentCallbacks
        /\ connectStore' = [got.store EXCEPT !.functionalComponentContexts =
                                SubSeq(@, 1, Len(@) - 1)]
        /\ lastCall' = [op |-> "connectRender", component |-> c, event |-> event,
                        threw |-> got.threw]
        /\ UNCHANGED createdStoreVars

\* componentWillUnmount of the class of connect (lines 218-220)
ConnectUnmount(c) ==
    /\ c \in DOMAIN connectStore.functionComponentCallbacks
    /\ connectStore' = [connectStore EXCEPT !.functionComponentCallbacks =
                            [d \in DOMAIN @ \ {c} |-> @[d]]]
    /\ lastCall' = [op |-> "connectUnmount"]
    /\ UNCHANGED createdStoreVars

\* The render of the class of squawk(SquawkComponent) (lines 175-178)
ClassRender ==
    /\ connectStore' = [connectStore EXCEPT !.renderingFunctionalComponent = FALSE]
    /\ lastCall' = [op |-> "classRender"]
    /\ UNCHANGED createdStoreVars

\* subscribe(event, callback) outside any class component (lines 126-138,
\* 49-64): the subscription gets a name of its own.
ConnectSubscribe(s, event) ==
    LET map == connectStore.classComponentCallbacks
        registered == UNION {Range(map[e]) : e \in DOMAIN map}
    IN  /\ s \notin registered
        /\ \A r \in 1..(s - 1) : r \in registered
        /\ connectStore' = [connectStore EXCEPT !.classComponentCallbacks =
               IF event \in DOMAIN map
               THEN [map EXCEPT ![event] = Append(@, s)]
               ELSE (event :> <<s>>) @@ map]
        /\ lastCall' = [op |-> "connectSubscribe"]
        /\ UNCHANGED createdStoreVars

\* update(event, reducer) and update(event) (lines 79-116): the components
\* whose callback was invoked and the subscribers called, in order.
ConnectUpdate(event, reducer) ==
    LET current == connectStore.state[event]
        newValue == NewValue(reducer, current)
        handlers == connectStore.functionComponentCallbacks
        map == connectStore.classComponentCallbacks
    IN  /\ IF Unchanged(current, newValue)
           THEN /\ connectStore' = connectStore
                /\ lastCall' = [op |-> "connectUpdate", event |-> event,
                                newValue |-> newValue, stored |-> FALSE,
                                forced |-> {}, called |-> <<>>]
           ELSE /\ connectStore' = [connectStore EXCEPT !.state[event] = newValue]
                /\ lastCall' = [op |-> "connectUpdate", event |-> event,
                                newValue |-> newValue, stored |-> TRUE,
                                forced |-> {c \in DOMAIN handlers :
                                               event \in handlers[c].events},
                                called |-> IF event \in DOMAIN map
                                           THEN map[event] ELSE <<>>]
        /\ UNCHANGED createdStoreVars

(***************************************************************************)
(* The specifications.                                                     *)
(***************************************************************************)
NonEmptyContextSets == (SUBSET Fields) \ {{}}

UpdateStep == \E value \in Patches : Update(value)
SubscribeStep == \E s \in Subs, context \in Fields, throws \in BOOLEAN : Subscribe(s, context, throws)
UseSquawkStep == \E s \in Subs, contexts \in NonEmptyContextSets : UseSquawkEffect(s, contexts)
UnsubscribeStep == \E s \in Subs : Unsubscribe(s)

\* The store and its subscribers.
Next ==
    \/ UpdateStep
    \/ SubscribeStep
    \/ UseSquawkStep
    \/ UnsubscribeStep

InitStore == Init /\ recording = {} /\ ~reduxDevTools

Spec == InitStore /\ [][Next]_vars

\* Updates under subscriptions that stay.
NextSubscribers ==
    \/ UpdateStep
    \/ SubscribeStep
    \/ UseSquawkStep

SpecSubscribers == InitStore /\ [][NextSubscribers]_vars

\* The registry alone: subscriptions made and taken back, with no update.
NextRegistry ==
    \/ SubscribeStep
    \/ UseSquawkStep
    \/ UnsubscribeStep

SpecRegistry == InitStore /\ [][NextRegistry]_vars

\* Sequences of update calls, with the history of their patches.
NextUpdate == \E value \in Patches : Update(value)

InitUpdate == Init /\ recording = {"patches"} /\ ~reduxDevTools

SpecUpdate == InitUpdate /\ [][NextUpdate]_vars

\* Direct calls of pending with lists of contexts.
NextPending == \E contexts \in ContextLists, state \in BOOLEAN : DirectPending(contexts, state)

SpecPending == InitStore /\ [][NextPending]_vars

\* The pending tracker under actions and direct calls.  The resolvers of this
\* specification write the field "a" or nothing.
ActionResults ==
    {[kind |-> "reject", patch |-> <<>>], [kind |-> "undefined", patch |-> <<>>],
     [kind |-> "patch", patch |-> <<>>], [kind |-> "patch", patch |-> <<<<"a", MaxVal>>>>]}

PendingOneStep == \E context \in Fields, state \in BOOLEAN : DirectPending(<<context>>, state)
InvokeStep ==
    \E i \in Acts, affectedContexts \in AffectedLists, resolverThrows \in BOOLEAN :
        InvokeAction(i, affectedContexts, resolverThrows)
ResumeStep == \E i \in Acts, result \in ActionResults : ResumeAction(i, result)

NextAction ==
    \/ PendingOneStep
    \/ InvokeStep
    \/ ResumeStep

InitAction == Init /\ globalState = NoState /\ recording = {} /\ ~reduxDevTools

SpecAction == InitAction /\ [][NextAction]_vars

\* Actions and updates side by side, with the snapshot each resolver was given.
\* The actions of this specification list no affected contexts.
WriteStep == \E value \in Patches : Update(value)
InvokeWriterStep ==
    \E i \in 1..MaxWriters, resolverThrows \in BOOLEAN : InvokeAction(i, <<>>, resolverThrows)
ResumeWriterStep == \E i \in 1..MaxWriters, result \in ResolverResults : ResumeAction(i, result)

NextCommit ==
    \/ WriteStep
    \/ InvokeWriterStep
    \/ ResumeWriterStep

InitCommit == Init /\ recording = {"snapshots"} /\ ~reduxDevTools

SpecCommit == InitCommit /\ [][NextCommit]_vars

\* Updates with values of every type, with and without the dev tools.  The
\* store is created with numbers in its fields; the callbacks do not throw.
UpdateValueStep == \E value \in ValueInputs : UpdateValue(value)
SubscribeQuietStep == \E s \in Subs, context \in Fields : Subscribe(s, context, FALSE)

NextValues ==
    \/ UpdateValueStep
    \/ SubscribeQuietStep

InitValues ==
    /\ globalState \in [Fields -> NumberValues]
    /\ reduxDevTools \in BOOLEAN
    /\ recording = {}
    /\ initialState = NoState
    /\ lastPatch = [f \in Fields |-> <<>>]
    /\ subscribers = [f \in Fields |-> <<>>]
    /\ subs = [s \in Subs |-> FreeClosure]
    /\ pendingSubscribers = [f \in Fields |-> <<>>]
    /\ taken = <<>>
    /\ connectStore = NewConnectStore
    /\ pendingCount = [f \in Fields |-> 0]
    /\ pendingState = [f \in Fields |-> FALSE]
    /\ held = [f \in Fields |-> 0]
    /\ acts = [i \in Acts |-> IdleAct]
    /\ lastCall = NoCall

SpecValues == InitValues /\ [][NextValues]_vars

\* Actions in a store with subscribers.  The actions list no affected
\* contexts; the callbacks do not throw.
NextNotify ==
    \/ SubscribeQuietStep
    \/ InvokeWriterStep
    \/ ResumeWriterStep

SpecNotify == InitStore /\ [][NextNotify]_vars

\* Callback functions that are subscribed more than once.
SubscribeAgainStep == \E s \in Subs, context \in Fields, r \in Subs : SubscribeAgain(s, context, r)

NextCallbacks ==
    \/ UpdateStep
    \/ SubscribeStep
    \/ SubscribeAgainStep

SpecCallbacks == InitStore /\ [][NextCallbacks]_vars

\* The store with the dev tools connected: updates and actions, with
\* callbacks that may throw.  The resolvers write the field "a" or nothing.
ResumeBridgeStep == \E i \in 1..MaxWriters, result \in ActionResults : ResumeAction(i, result)

NextBridge ==
    \/ UpdateStep
    \/ SubscribeStep
    \/ InvokeWriterStep
    \/ ResumeBridgeStep

InitBridge == Init /\ recording = {} /\ reduxDevTools

SpecBridge == InitBridge /\ [][NextBridge]_vars

\* The store under the messages of the dev tools, next to updates and actions.
\* The states the dev tools send hold some or all of the fields; the callbacks
\* do not throw.
ReplayStep == \E parsed \in Patches : Replay(parsed)

NextReplay ==
    \/ ReplayStep
    \/ UpdateStep
    \/ SubscribeQuietStep
    \/ InvokeWriterStep
    \/ ResumeBridgeStep

SpecReplay == InitBridge /\ [][NextReplay]_vars

\* The store with and without the dev tools, under every operation but the
\* messages of the dev tools.  The updates write "a", the actions mark "a",
\* the direct calls of pending are about "b", and the callbacks watch "a".
UpdateOneStep == \E v \in Values : Update(<<<<"a", v>>>>)
WatchStep == \E s \in 1..MaxWatchers, throws \in BOOLEAN : Subscribe(s, "a", throws)
PendingOtherStep == \E state \in BOOLEAN : DirectPending(<<"b">>, state)
InvokeMarkingStep ==
    \E i \in 1..MaxWriters, resolverThrows \in BOOLEAN :
        InvokeAction(i, <<"a">>, resolverThrows)

NextEither ==
    \/ UpdateOneStep
    \/ WatchStep
    \/ UnsubscribeStep
    \/ PendingOtherStep
    \/ InvokeMarkingStep
    \/ ResumeBridgeStep

InitEither == Init /\ globalState = NoState /\ recording = {}

SpecEither == InitEither /\ [][NextEither]_vars

\* One call at a time with its affected contexts, next to direct calls of
\* pending on "b", with the scheduling of the continuation: once the awaited
\* value of the call has settled, the rest of the async function (lines
\* 338-346) is a job of the microtask queue, which the event loop runs.
ResumeOne == \E result \in ActionResults : ResumeAction(1, result)

NextSettle ==
    \/ PendingOtherStep
    \/ \E affectedContexts \in AffectedLists, resolverThrows \in BOOLEAN :
          InvokeAction(1, affectedContexts, resolverThrows)
    \/ ResumeOne

SpecSettle == InitAction /\ [][NextSettle]_vars /\ WF_vars(ResumeOne)

\* Components that call useSquawk() or usePending() without explicit contexts,
\* next to updates of "a" and direct calls of pending about "b".  A render
\* reads "a", and reads "b" or leaves it.
Consumers == 1..MaxConsumers
ReadSets == {{"a"}, {"a", "b"}}

RenderStep ==
    \E c \in Consumers, kind \in HookKinds, reads \in ReadSets :
        Render(c, kind, {}, reads)
EffectStep == \E c \in Consumers : Effect(c)
RerenderStep == \E c \in Consumers, reads \in ReadSets : Rerender(c, reads)
UnmountStep == \E c \in Consumers : Unmount(c)

NextHooks ==
    \/ RenderStep
    \/ EffectStep
    \/ RerenderStep
    \/ UnmountStep
    \/ UpdateOneStep
    \/ PendingOtherStep

InitHooks == Init /\ globalState = NoState /\ recording = {} /\ ~reduxDevTools

SpecHooks == InitHooks /\ [][NextHooks]_vars

\* Components that call usePending, next to direct calls of pending with
\* lists of contexts.
NextTold ==
    \/ \E c \in Consumers, reads \in NonEmptyContextSets : Render(c, "usePending", {}, reads)
    \/ EffectStep
    \/ \E contexts \in AffectedLists, state \in BOOLEAN : DirectPending(contexts, state)

SpecTold == InitHooks /\ [][NextTold]_vars

\* The store and its subscribers, with what each callback was handed last.
InitDelivered == Init /\ recording = {"delivered"} /\ ~reduxDevTools

SpecDelivered == InitDelivered /\ [][Next]_vars

\* The store of Squawk.tsx under components that connect wraps, renders of
\* class components, subscriptions and updates.
NextConnect ==
    \/ \E event \in Fields : ConnectGet(event)
    \/ \E c \in Consumers, event \in Fields : ConnectRender(c, event)
    \/ \E c \in Consumers : ConnectUnmount(c)
    \/ ClassRender
    \/ \E s \in 1..MaxWriters, event \in Fields : ConnectSubscribe(s, event)
    \/ \E event \in Fields, reducer \in Reducers : ConnectUpdate(event, reducer)

SpecConnect == InitHooks /\ [][NextConnect]_vars

\* createStore called with any value: before the call there is no store, and
\* initialState holds the value the call is made with.
NextCreate == CreateStore

InitCreate ==
    /\ initialState \in InitialValues
    /\ reduxDevTools \in BOOLEAN
    /\ globalState = NoStore
    /\ subscribers = NoStore
    /\ pendingSubscribers = NoStore
    /\ taken = <<>>
    /\ connectStore = NewConnectStore
    /\ pendingCount = NoStore
    /\ pendingState = NoStore
    /\ recording = {}
    /\ lastPatch = [f \in Fields |-> <<>>]
    /\ subs = [s \in Subs |-> FreeClosure]
    /\ held = [f \in Fields |-> 0]
    /\ acts = [i \in Acts |-> IdleAct]
    /\ lastCall = NoCall

SpecCreate == InitCreate /\ [][NextCreate]_vars

\* The objects that get() hands to callers, resolvers and the subscribers of
\* hooks, under every operation that writes: updates that put 0 into "a",
\* commits of actions, direct calls of pending about "b", and messages of the
\* dev tools that put MaxVal into "a".  The components read both fields; the actions mark no context, and
\* one call of an action is in flight at a time.
GetStep == Get
InvokeOneStep == InvokeAction(1, <<>>, FALSE)
ResumeOneStep == \E result \in ActionResults : ResumeAction(1, result)
RenderAllStep == \E c \in Consumers, kind \in HookKinds : Render(c, kind, {}, Fields)
ReplayOneStep == Replay(<<<<"a", MaxVal>>, <<"b", 0>>>>)

NextSnapshots ==
    \/ GetStep
    \/ RenderAllStep
    \/ EffectStep
    \/ Update(<<<<"a", 0>>>>)
    \/ PendingOtherStep
    \/ InvokeOneStep
    \/ ResumeOneStep
    \/ ReplayOneStep

InitSnapshots == Init /\ globalState = NoState /\ recording = {"objects"} /\ reduxDevTools

SpecSnapshots == InitSnapshots /\ [][NextSnapshots]_vars

(***************************************************************************)
(* The properties.                                                          *)
(***************************************************************************)
\* C1 (SpecUpdate): after any sequence of update calls, get() holds for each
\* field the value of the last patch that contained the field, and the initial
\* value for a field no patch contained.
C1_LastPatchWins ==
    \A f \in Fields :
        StoreGet(globalState)[f] =
            IF lastPatch[f] = <<>> THEN initialState[f] ELSE lastPatch[f][1]

\* An update has written field "a", whose initial value was another one, and
\* field "b" has been in no patch.
C1_Witness ==
    /\ lastCall.op = "update"
    /\ lastCall.patch = <<<<"a", MaxVal>>>>
    /\ initialState = [f \in Fields |-> IF f = "a" THEN 0 ELSE MaxVal]
    /\ lastPatch["b"] = <<>>
    /\ globalState = [f \in Fields |-> MaxVal]

\* C2 (SpecSubscribers): an update call invokes no subscriber twice, whatever the number
\* of keys of its patch under which the subscriber is registered, and the one
\* state every subscriber of the pass is handed is the state the call leaves.
C2_OncePerUpdate ==
    lastCall.op = "update" =>
        /\ \A s \in Subs : Occurrences(s, lastCall.invoked) <= 1
        /\ lastCall.delivered = globalState

\* A subscriber registered under both fields has been invoked by an update of both.
C2_Witness ==
    /\ lastCall.op = "update"
    /\ Len(lastCall.patch) = 2
    /\ \E s \in Subs : subs[s].contexts = Fields /\ s \in Range(lastCall.invoked)

\* C3 (Spec): an update whose patch contains f invokes every callback subscribed
\* to f exactly once, with the new value of f, and invokes no callback whose
\* unsubscribe function has been called.
C3_SubscribeThenUnsubscribe ==
    lastCall.op = "update" =>
        /\ \A s \in Subs : \A f \in Fields :
              (subs[s].status = "active" /\ subs[s].kind = "callback"
                   /\ f \in subs[s].contexts /\ HasKey(lastCall.patch, f))
              => /\ Occurrences(s, lastCall.invoked) = 1
                 /\ lastCall.delivered[f] = PatchValue(lastCall.patch, f)
        /\ \A s \in Subs : subs[s].status = "removed" => s \notin Range(lastCall.invoked)
C5_FailureRejectsAndMergesNothing ==
    [][(lastCall'.op = "settle" /\ lastCall'.outcome \in {"throw", "reject"})
        => /\ lastCall'.promise = "rejected"
           /\ lastCall'.error = "resolver"
           /\ globalState' = globalState]_vars

\* A resolver has rejected after an update changed the state it was given.
C5_Witness ==
    /\ lastCall.op = "settle"
    /\ lastCall.outcome = "reject"
    /\ lastCall.promise = "rejected"
    /\ lastCall.snapshot # globalState

C7_CountAndState ==
    \A f \in Fields :
        /\ pendingCount[f] \in Nat
        /\ pendingState[f] = (pendingCount[f] > 0)
        /\ lastCall = NoCall => pendingCount[f] = 0

\* A count of 2 has been reached, by a direct call and a call of an action.
C7_Witness ==
    /\ pendingCount["a"] = 2
    /\ held["a"] = 1
    /\ InFlight("a") = 1
    /\ pendingState["a"]

\* C8 (SpecPending): in a sequence of pending(f, true) / pending(f, false) calls
\* no call that keeps the false calls within the true calls raises an error;
\* when the two are equal in number the pending state of f is false, and one
\* further pending(f, false) raises the error.
C8_BalancedSequences ==
    /\ [](\A f \in Fields : held[f] = 0 => ~pendingState[f])
    /\ [][\A f \in Fields :
            (lastCall'.op = "pending" /\ lastCall'.contexts = <<f>>)
            => IF lastCall'.state \/ held[f] > 0
               THEN ~lastCall'.threw
               ELSE lastCall'.threw]_vars

\* A pending("a", false) has just completed a balanced sequence.
C8_Witness ==
    /\ lastCall.op = "pending"
    /\ lastCall.contexts = <<"a">>
    /\ ~lastCall.state
    /\ ~lastCall.threw
    /\ held["a"] = 0
    /\ ~pendingState["a"]

\* C9 (SpecPending): pending(f, false) on a count of 0 throws, and leaves the
\* count at 0 and the pending state false.
C9_DecrementOfZeroThrows ==
    [][\A f \in Fields :
        (lastCall'.op = "pending" /\ lastCall'.contexts = <<f>> /\ ~lastCall'.state
            /\ pendingCount[f] = 0)
        => /\ lastCall'.threw
           /\ pendingCount'[f] = 0
           /\ pendingState'[f] = FALSE]_vars

\* A pending("a", false) has thrown on a count of 0 while "b" is marked.
C9_Witness ==
    /\ lastCall.op = "pending"
    /\ lastCall.contexts = <<"a">>
    /\ ~lastCall.state
    /\ lastCall.threw
    /\ pendingCount["a"] = 0
    /\ pendingCount["b"] > 0

\* C10 (SpecCommit): the patch an action commits is merged into the state that
\* is current when it commits: a field outside the patch keeps the value it has
\* then, whatever the resolver's snapshot held, and a field of the patch takes
\* the patch's value, whatever was written to it before.
C10_CommitIntoCurrentState ==
    [][(lastCall'.op = "settle" /\ lastCall'.outcome = "patch")
        => \A f \in Fields :
              globalState'[f] = IF HasKey(lastCall'.patch, f)
                                THEN PatchValue(lastCall'.patch, f)
                                ELSE globalState[f]]_vars

\* An action has committed a patch of "a" alone after "b" was written while it
\* was suspended, and the write to "b" is still there.
C10_Witness ==
    /\ lastCall.op = "settle"
    /\ lastCall.outcome = "patch"
    /\ Keys(lastCall.patch) = <<"a">>
    /\ lastCall.snapshot["b"] # globalState["b"]
    /\ lastCall.snapshot["a"] = globalState["a"]

C12_ThrowDoesNotStarveOthers ==
    (lastCall.op = "update" /\ lastCall.threw)
    => \A s \in Subs :
          (subs[s].status = "active"
              /\ \E f \in subs[s].contexts : HasKey(lastCall.patch, f))
          => s \in Range(lastCall.invoked)

\* C13 (SpecSubscribers): an update during whose notification pass a callback throws
\* keeps its state change: every field of the patch holds the patch's value
\* afterwards, and every other field the value it had.
C13_ThrowKeepsMerge ==
    [][(lastCall'.op = "update" /\ lastCall'.threw)
        => \A f \in Fields :
              StoreGet(globalState')[f] =
                  IF HasKey(lastCall'.patch, f)
                  THEN PatchValue(lastCall'.patch, f)
                  ELSE globalState[f]]_vars

\* A callback has thrown during the pass of an update that wrote both fields.
C13_Witness ==
    /\ lastCall.op = "update"
    /\ lastCall.threw
    /\ lastCall.patch = <<<<"a", MaxVal>>, <<"b", 0>>>>
    /\ globalState = [f \in Fields |-> IF f = "a" THEN MaxVal ELSE 0]

\* C14 (Spec): an update whose patch sets a field to the value the field
\* already has invokes every callback subscribed to that field exactly once.
C14_PresenceTriggers ==
    [][\A f \in Fields :
        (lastCall'.op = "update" /\ HasKey(lastCall'.patch, f)
            /\ PatchValue(lastCall'.patch, f) = globalState[f])
        => \A s \in Subs :
              (subs[s].status = "active" /\ f \in subs[s].contexts)
              => Occurrences(s, lastCall'.invoked) = 1]_vars

\* C15 (SpecValues): an update whose value is, or whose function returns,
\* null, undefined, a number, a string or a boolean changes nothing: the state
\* is the same, no callback is invoked, nothing is sent to the dev tools and
\* no error is raised.
C15_NonObjectIsNoOp ==
    [][(lastCall'.op = "update"
            /\ \/ lastCall'.value \in Primitives
               \/ /\ lastCall'.value.type = "function"
                  /\ lastCall'.value.body = "constant"
                  /\ lastCall'.value.returns \in Primitives)
        => /\ globalState' = globalState
           /\ lastCall'.invoked = <<>>
           /\ lastCall'.sent = <<>>
           /\ ~lastCall'.threw]_vars

\* A number has been given to update in a store with the dev tools connected
\* and a callback subscribed to each field.
C15_Witness ==
    /\ lastCall.op = "update"
    /\ lastCall.value = Num(MaxVal)
    /\ reduxDevTools
    /\ \A f \in Fields : subscribers[f] # <<>>
    /\ lastCall.invoked = <<>>
    /\ lastCall.sent = <<>>

\* C16 (SpecValues): a function given to update is called with the current
\* state, and the patch it returns is merged and its keys are notified.
C16_FunctionGetsState ==
    [][(lastCall'.op = "update" /\ lastCall'.value.type = "function")
        => /\ lastCall'.args = <<<<StoreGet(globalState)>>>>
           /\ ~lastCall'.threw
           /\ \A f \in Fields :
                 HasKey(lastCall'.patch, f)
                 => /\ globalState'[f] = PatchValue(lastCall'.patch, f)
                    /\ \A s \in Range(subscribers[f]) : s \in Range(lastCall'.invoked)]_vars

\* C17 (SpecValues): three updates in a row that give for field "a", which
\* holds 0, the function c => c + 1 leave the number 3 in "a".
C17_ThreeIncrements ==
    (lastCall.op = "update" /\ lastCall.run = 3) => globalState["a"] = Num(3)

\* C18 (SpecCommit): the promise of a call of an action that has committed
\* resolves with the snapshot of the state as it is then, the value get()
\* returns at that moment.
C18_ResolvesWithSnapshot ==
    (lastCall.op = "settle" /\ lastCall.promise = "resolved")
    => lastCall.resolvedWith = Snapshot(globalState)

\* C19 (SpecNotify): a call of an action whose resolver's value is undefined,
\* or is the empty object {}, changes the value of no field and invokes no
\* callback.
C19_EmptyResultChangesNothing ==
    [][(lastCall'.op = "settle"
            /\ \/ lastCall'.outcome = "undefined"
               \/ lastCall'.outcome = "patch" /\ lastCall'.patch = <<>>)
        => /\ \A f \in Fields : globalState'[f] = globalState[f]
           /\ lastCall'.invoked = <<>>]_vars

\* A resolver has returned {} in a store with a callback under each field.
C19_Witness ==
    /\ lastCall.op = "settle"
    /\ lastCall.outcome = "patch"
    /\ lastCall.patch = <<>>
    /\ lastCall.promise = "resolved"
    /\ \A f \in Fields : subscribers[f] # <<>>
    /\ lastCall.invoked = <<>>

\* C20 (SpecRegistry): the unsubscribe function of a subscription takes its callback
\* out of the sets of the fields of that subscription and changes nothing
\* else: every other callback stays where it was, in the same order, under
\* every field, and a second call of the function changes nothing at all.
C20_UnsubscribeExactly ==
    [][lastCall'.op = "unsubscribe"
        => \E s \in Subs :
              /\ subs[s].status \in {"active", "removed"}
              /\ subs'[s].status = "removed"
              /\ \A f \in Fields :
                    /\ s \notin Range(subscribers'[f])
                    /\ subscribers'[f] = SelectSeq(subscribers[f], LAMBDA r : r # s)
              /\ \A f \in Fields \ subs[s].contexts : subscribers'[f] = subscribers[f]
              /\ \A r \in Subs \ {s} : subs'[r] = subs[r]
              /\ subs[s].status = "removed"
                    => subscribers' = subscribers /\ subs' = subs]_vars

\* The first of two callbacks under "a" has been unsubscribed; the second is
\* still registered under "a" and "b".
C20_Witness ==
    /\ lastCall.op = "unsubscribe"
    /\ subs[1].status = "removed"
    /\ subs[1].contexts = {"a"}
    /\ subs[2].status = "active"
    /\ subscribers = [f \in Fields |-> <<2>>]

\* C21 (SpecCallbacks): when one callback function has been given to subscribe
\* for two different fields, an update whose patch holds both fields invokes
\* the function once: of its two subscriptions at most one is invoked.
C21_OncePerCallback ==
    lastCall.op = "update"
    => \A s, r \in Subs :
          (s # r /\ subs[s].status = "active" /\ subs[r].status = "active"
              /\ subs[s].callback = subs[r].callback
              /\ subs[s].contexts # subs[r].contexts
              /\ \A f \in subs[s].contexts \cup subs[r].contexts : HasKey(lastCall.patch, f))
          => ~(s \in Range(lastCall.invoked) /\ r \in Range(lastCall.invoked))

\* C22 (SpecBridge): with the dev tools connected, every update and every
\* commit of an action that merges a patch sends exactly one message, which
\* holds the state after the merge; it is sent before the callbacks are
\* invoked, so it has been sent also when one of them throws.  A call that
\* merges nothing sends nothing.
C22_OneCommitBeforeObservers ==
    [][/\ (lastCall'.op = "update" \/ (lastCall'.op = "settle" /\ lastCall'.outcome = "patch"))
          => /\ Len(lastCall'.sent) = 1
             /\ lastCall'.sent[1].state = StoreGet(globalState')
             /\ lastCall'.sent[1].state = lastCall'.delivered
       /\ (lastCall'.op = "settle" /\ lastCall'.outcome # "patch")
          => lastCall'.sent = <<>>]_vars

\* An update of "a" has sent its message, and the first callback of "a" threw.
C22_Witness ==
    /\ reduxDevTools
    /\ lastCall.op = "update"
    /\ lastCall.patch = <<<<"a", MaxVal>>>>
    /\ lastCall.threw
    /\ Len(lastCall.invoked) = 1
    /\ Len(subscribers["a"]) = 2
    /\ Len(lastCall.sent) = 1
    /\ lastCall.sent[1].state["a"] = MaxVal

\* C23 (SpecReplay): a replay makes the replayed snapshot the whole state and
\* invokes every callback registered under a field of the schema exactly once,
\* with the replayed snapshot, whichever fields the snapshot holds.
C23_ReplayNotifiesSchema ==
    lastCall.op = "replay"
    => /\ globalState = StoreSet(lastCall.snapshot)
       /\ lastCall.delivered = globalState
       /\ \A s \in Subs :
             (subs[s].status = "active" /\ subs[s].contexts # {})
             => Occurrences(s, lastCall.invoked) = 1

\* C29 (SpecReplay): in every reachable state, after updates, commits of
\* actions and replays, every field of the initial state is present in get().
C29_SchemaStaysPresent ==
    \A f \in Fields : f \in DOMAIN StoreGet(globalState)

\* C24 (SpecEither): without a replay, the store with the dev tools attached
\* takes every step as the store without them takes it: an update and the
\* commit of an action leave the state, invoke the callbacks and hand them the
\* state that the dispatch without dev tools leaves, invokes and hands over,
\* the pending counts follow from the call alone, and a subscribe, an
\* unsubscribe or a pending call leaves the state alone.  The dev tools add
\* the forwarded commit, which only their store sends.
C24_BridgeOnlyAddsCommits ==
    [][LET call == lastCall'
           merges == call.op = "update" \/ (call.op = "settle" /\ call.outcome = "patch")
           d == DispatchValue(globalState, Obj(call.patch), subscribers, subs, FALSE)
       IN  /\ merges
              => /\ globalState' = d.state
                 /\ call.delivered = d.delivered
                 /\ call.invoked = d.invoked
                 /\ call.threw = d.threw
                 /\ Len(call.sent) = IF reduxDevTools THEN 1 ELSE 0
           /\ call.op = "update" => pendingVars' = pendingVars
           /\ (call.op = "settle" /\ call.outcome = "patch")
              => LET ended == ActionFinally(call.affected, d.threw, pendingCount, pendingState)
                 IN  pendingCount' = ended.count /\ pendingState' = ended.state
           /\ ~merges => globalState' = globalState
           /\ (call.op = "settle" /\ call.outcome # "patch") => call.sent = <<>>
           /\ subscribers' # subscribers => call.op \in {"subscribe", "unsubscribe"}]_vars

\* With the dev tools attached, an action that marked "a" has committed after
\* an unsubscribe: its commit was forwarded, a callback was invoked, and "b"
\* is still pending from a direct call.
C24_Witness ==
    /\ reduxDevTools
    /\ lastCall.op = "settle"
    /\ lastCall.outcome = "patch"
    /\ lastCall.affected = <<"a">>
    /\ Len(lastCall.sent) = 1
    /\ Len(lastCall.invoked) = 1
    /\ \E s \in Subs : subs[s].status = "removed"
    /\ pendingCount["b"] > 0
    /\ pendingCount["a"] = 0

\* C25 (SpecHooks): for a component whose hook was given no explicit contexts,
\* the set that read tracking has accumulated after a render is exactly the
\* set of fields the render read.
C25_TrackedIsRead ==
    \A c \in Subs :
        (subs[c].kind \in HookKinds /\ subs[c].status \in {"rendered", "active"}
            /\ subs[c].explicit = {})
        => subs[c].tracked = subs[c].reads

\* C26 (SpecHooks): after every render of a mounted component whose hook was
\* given no explicit contexts, the subscriber of the hook is registered under
\* exactly the fields the render read.
C26_RegisteredIsRead ==
    \A c \in Subs :
        (subs[c].kind \in HookKinds /\ subs[c].status = "active" /\ subs[c].explicit = {})
        => \A f \in Fields :
               f \in subs[c].reads
               <=> c \in Range(IF subs[c].kind = "useSquawk"
                               THEN subscribers[f] ELSE pendingSubscribers[f])

\* C27 (SpecHooks): the subscriber of an unmounted component is in no set of
\* subscribers and in no set of pendingSubscribers, and no step changes the
\* local state of an unmounted component.
C27_UnmountedIsGone ==
    [][\A c \in Subs :
          /\ (subs'[c].kind \in HookKinds /\ subs'[c].status = "removed")
             => \A f \in Fields : /\ c \notin Range(subscribers'[f])
                                  /\ c \notin Range(pendingSubscribers'[f])
          /\ (subs[c].kind \in HookKinds /\ subs[c].status = "removed")
             => subs'[c].local = subs[c].local]_vars

\* A component that read "a" with useSquawk has been unmounted, its subscriber
\* had been registered under "a", and an update has written "a" since: the
\* local state of the component has not followed.
C27_Witness ==
    \E c \in Subs :
        /\ subs[c].kind = "useSquawk" /\ subs[c].status = "removed"
        /\ "a" \in subs[c].contexts
        /\ ~subs[c].isMounted
        /\ lastCall.op = "update"
        /\ lastCall.patch = <<<<"a", MaxVal>>>>
        /\ subs[c].local["a"] # MaxVal
        /\ globalState["a"] = MaxVal

\* C28 as stated (SpecCreate): createStore called with an object that lacks a
\* field of the schema throws, and no store is created.
C28_PartialIsRejected ==
    (lastCall.op = "createStore" /\ initialState.type = "object"
        /\ \E f \in Fields : ~HasKey(initialState.patch, f))
    => lastCall.threw /\ globalState = NoStore /\ subscribers = NoStore

\* C28 as amended (SpecCreate): createStore throws exactly when the root value
\* is null, undefined, not an object or an array, and then no store is
\* created; any object is accepted, whichever fields of the schema it lacks,
\* and the store it creates has the keys of the object: its state, its sets
\* of subscribers and its pending counts have an entry for these keys alone.
C28_RootCheckOnly ==
    lastCall.op = "createStore"
    => /\ lastCall.threw <=> initialState.type # "object"
       /\ lastCall.threw
          => /\ globalState = NoStore
             /\ subscribers = NoStore
             /\ pendingSubscribers = NoStore
             /\ pendingCount = NoStore
       /\ ~lastCall.threw
          => /\ DOMAIN globalState = Range(Keys(initialState.patch))
             /\ \A f \in DOMAIN globalState :
                   globalState[f] = PatchValue(initialState.patch, f)
             /\ DOMAIN subscribers = DOMAIN globalState
             /\ DOMAIN pendingSubscribers = DOMAIN globalState
             /\ DOMAIN pendingCount = DOMAIN globalState
             /\ DOMAIN pendingState = DOMAIN globalState

\* createStore has been called with { a: 0 }, which lacks "b", and has
\* returned a store whose state and maps hold "a" alone.
C28_Witness ==
    /\ lastCall.op = "createStore"
    /\ initialState = Obj(<<<<"a", Num(0)>>>>)
    /\ ~lastCall.threw
    /\ DOMAIN globalState = {"a"}
    /\ DOMAIN subscribers = {"a"}

\* C30 (SpecSnapshots): an object that get() handed out, to a caller, to a
\* resolver, to a subscriber or to a hook, has the contents it was handed out
\* with, whatever updates, commits, pending calls and replays have followed.
C30_SnapshotsStay ==
    \A i \in 1..Len(taken) : taken[i].state = taken[i].produced

\* The resolver of a call in flight holds the object it was given when "a"
\* was 0; since then "b" has been marked pending and a message of the dev
\* tools has put MaxVal into "a".
C30_Witness ==
    /\ Len(taken) = 1
    /\ taken[1].of = "globalState"
    /\ acts[1].pc = "awaiting"
    /\ taken[1].produced["a"] = 0
    /\ globalState["a"] = MaxVal
    /\ pendingState["b"]
    /\ lastCall.op = "replay"

\* C31 (SpecSubscribers): the state handed to the subscribers in the pass of an update
\* holds every field of the patch at the value of the patch, never some of
\* them only.
C31_NoTornState ==
    (lastCall.op = "update" /\ lastCall.invoked # <<>>)
    => \A f \in Fields :
          HasKey(lastCall.patch, f) => lastCall.delivered[f] = PatchValue(lastCall.patch, f)

\* An update of both fields has invoked a subscriber of "a" and a subscriber
\* of "b", and both were handed MaxVal in both fields.
C31_Witness ==
    /\ lastCall.op = "update"
    /\ lastCall.patch = <<<<"b", MaxVal>>, <<"a", MaxVal>>>>
    /\ Len(lastCall.invoked) = 2
    /\ ~lastCall.threw
    /\ subs[lastCall.invoked[1]].contexts = {"b"}
    /\ subs[lastCall.invoked[2]].contexts = {"a"}
    /\ lastCall.delivered = [f \in Fields |-> MaxVal]

\* C32 (SpecSettle): a call of an action that is suspended at its await is
\* resumed in the end, with or without anyone waiting for its promise; the
\* step that resumes it merges the patch the resolver gave, when it gave one,
\* and leaves every pending count where it was before the call began.
C32_Settled(i, affected) ==
    /\ acts[i].pc = "idle"
    /\ lastCall.op = "settle"
    /\ lastCall.affected = affected
    /\ \A f \in Fields : lastCall.net[f] = 0
    /\ lastCall.outcome = "patch" =>
           \A f \in Fields :
              HasKey(lastCall.patch, f) =>
                  /\ f \in DOMAIN globalState
                  /\ globalState[f] = PatchValue(lastCall.patch, f)

C33_PendingTellsOnce ==
    (lastCall.op = "pending" /\ ~lastCall.threw)
    => /\ \A s \in Subs :
             Occurrences(s, lastCall.invoked)
                 = IF \E f \in Range(lastCall.contexts) : s \in Range(pendingSubscribers[f])
                   THEN 1 ELSE 0
       /\ \A f \in Range(lastCall.contexts) : lastCall.delivered[f] = (pendingCount[f] > 0)
       /\ \A s \in Range(lastCall.invoked) :
             subs[s].isMounted => subs[s].local = lastCall.delivered

C33_Witness ==
    /\ lastCall.op = "pending"
    /\ ~lastCall.threw
    /\ lastCall.contexts = <<"a", "b">>
    /\ ~lastCall.state
    /\ lastCall.invoked = <<1>>
    /\ subs[1].status = "active"
    /\ subs[1].contexts = {"a", "b"}
    /\ pendingCount = [f \in Fields |-> IF f = "a" THEN 1 ELSE 0]
    /\ subs[1].local = [f \in Fields |-> f = "a"]

\* C34 (SpecPending): a call pending(contexts, false) that fails on a context
\* whose count is 0 changes no count and no pending state and invokes no
\* subscriber.
C34_FailedPendingChangesNothing ==
    [][(lastCall'.op = "pending" /\ lastCall'.threw)
       => /\ pendingCount' = pendingCount
          /\ pendingState' = pendingState
          /\ lastCall'.invoked = <<>>]_vars

\* C35 (SpecValues): what an update sends to the dev tools names the keys of
\* the patch that was merged, whether update was given the patch or a function
\* that returned it, and carries the state after the merge.
C35_CommitNamesPatchKeys ==
    (lastCall.op = "update" /\ lastCall.sent # <<>>)
    => /\ lastCall.sent[1].label = Keys(lastCall.patch)
       /\ lastCall.sent[1].state = StoreGet(globalState)

\* C36 (SpecBridge): a call of an action whose resolver gave undefined or the
\* empty patch {} sends nothing to the dev tools.
C36_EmptyResultSendsNothing ==
    (/\ lastCall.op = "settle"
     /\ \/ lastCall.outcome = "undefined"
        \/ lastCall.outcome = "patch" /\ lastCall.patch = <<>>)
    => lastCall.sent = <<>>

\* C37 (SpecHooks): between the operations, a mounted component that called
\* useSquawk and whose subscription is in place holds, for every field it is
\* subscribed to, the value the store holds.
C37_ConsumerNeverStale ==
    \A c \in Consumers :
        (subs[c].kind = "useSquawk" /\ subs[c].status = "active" /\ subs[c].isMounted)
        => \A f \in subs[c].contexts : subs[c].local[f] = globalState[f]

\* C38 (SpecDelivered): when a call of update has returned, every callback
\* that subscribe registered under a field written since then was handed, the
\* last time it was called, the value the store holds for the field.
C38_LastDeliveredIsCurrent ==
    (lastCall.op = "update" /\ ~lastCall.threw)
    => \A s \in Subs :
          (/\ subs[s].status = "active"
           /\ subs[s].kind = "callback"
           /\ "written" \in DOMAIN subs[s])
          => /\ "last" \in DOMAIN subs[s]
             /\ \A f \in subs[s].contexts : subs[s].last = globalState[f]

\* C39 (SpecConnect): the reads of get are recorded only during the render of
\* a component of connect, for the component that is rendering; a get outside
\* a render returns the value of the event, records nothing and does not throw.
C39_TrackingEndsWithRender ==
    [][/\ lastCall'.op = "connectGet"
          => /\ ~lastCall'.threw
             /\ lastCall'.value = connectStore.state[lastCall'.event]
             /\ connectStore' = connectStore
       /\ lastCall'.op = "connectRender"
          => /\ ~lastCall'.threw
             /\ \A c \in DOMAIN connectStore'.functionComponentCallbacks :
                   connectStore'.functionComponentCallbacks[c].events
                       = (IF c \in DOMAIN connectStore.functionComponentCallbacks
                          THEN connectStore.functionComponentCallbacks[c].events ELSE {})
                         \cup (IF c = lastCall'.component THEN {lastCall'.event} ELSE {})
             /\ connectStore'.functionalComponentContexts = <<>>]_vars

==============================================================================
